---- MODULE Spec2Model ----
(***************************************************************************)
(* Model of scripts/ai_api_docs_watch.py: the daily API-documentation      *)
(* watcher.  One run of main() loads the snapshot file, fetches every      *)
(* configured page, compares fingerprints, saves the snapshot mapping and  *)
(* writes the run report.  The model covers sequences of runs over the     *)
(* same snapshot file, runs that are interrupted, and writes that fail.    *)
(***************************************************************************)
EXTENDS Integers, Sequences, FiniteSets, TLC

(***************************************************************************)
(* Bounds of the model.                                                    *)
(***************************************************************************)
\* number of configured pages that are modelled (the source lists 18)
NumPages == 2
\* number of runs of main() in one behaviour
MaxRuns == 3
\* longest run of changed lines in the texts given to unified_diff alone
MaxDiffLen == 61

(***************************************************************************)
(* Program constants.                                                      *)
(***************************************************************************)
RETRY == 2
DIFF_MAX_LINES == 120

\* PROVIDER_PAGES: the page at position k has url k; all urls are distinct
PROVIDER_PAGES == [k \in 1..NumPages |-> [provider |-> k, url |-> k, title |-> k]]
Urls == {PROVIDER_PAGES[k].url : k \in 1..NumPages}

(***************************************************************************)
(* Texts.  A text is its lines plus whether it ends with a line break, so  *)
(* that str.splitlines() is not the identity: "a\nb" and "a\nb\n" are      *)
(* different strings with the same lines.                                  *)
(***************************************************************************)
Text(ls, nl) == [lines |-> ls, nl |-> nl]
splitlines(s) == s.lines

\* the bodies a server can answer with
Bodies ==
  { Text(<<"v1", "line2">>, FALSE),
    Text(<<"v1", "line2", "line3">>, FALSE),
    Text(<<"line3", "", "line3">>, TRUE) }

(***************************************************************************)
(* compute_hash: a deterministic digest of the whole string.  SHA-256 maps *)
(* unboundedly many strings to 256 bits; the model digest keeps that shape *)
(* at a small width: it depends on every line and on the final line break, *)
(* and it is not injective (the first and the third body collide).         *)
(***************************************************************************)
LineCode(l) ==
  CASE l = "v1" -> 1
    [] l = "line2" -> 2
    [] l = "line3" -> 3
    [] OTHER -> 0

RECURSIVE SumCodes(_)
SumCodes(ls) == IF ls = <<>> THEN 0 ELSE LineCode(Head(ls)) + SumCodes(Tail(ls))

compute_hash(content) ==
  (SumCodes(content.lines) + (IF content.nl THEN 5 ELSE 0)) % 8

(***************************************************************************)
(* fetch_page.  A response is what one requests.get call produces: an      *)
(* exception, a status 403, another error status, or a status 200 with a   *)
(* body and a content type.  fetch_page is computed over the responses of  *)
(* its RETRY + 1 attempts.                                                 *)
(***************************************************************************)
OkResponses == [status : {200}, ctype : {"html", "json"}, body : Bodies]
\* status 0 stands for requests.get raising (timeout, connection error)
Responses ==
  OkResponses \cup {[status |-> 403], [status |-> 500], [status |-> 0]}

\* the first configured url ends with ".yaml"; no other url has a raw suffix
is_text_raw(url, resp) ==
  \/ url = PROVIDER_PAGES[1].url
  \/ resp.ctype = "json"

\* BeautifulSoup text: stripped non-blank lines joined by "\n"
NonBlank(l) == l # ""
html_to_text(body) == Text(SelectSeq(splitlines(body), NonBlank), FALSE)

Ok(text) == [ok |-> TRUE, text |-> text]
\* RuntimeError(f"Failed to fetch {url}: {last_exc}")
Failed(url, last_exc) == [ok |-> FALSE, error |-> <<url, last_exc>>]

\* last_exc: the "HTTP 403 (attempt n)" string, or the exception caught in
\* attempt n (1-based, as the message counts)
Http403(n) == [what |-> "HTTP 403", attempt |-> n]
Caught(n) == [what |-> "exception", attempt |-> n]
NoExc == [what |-> "None", attempt |-> 0]

\* the attempt loop from attempt number `attempt` (0-based)
RECURSIVE fetch_attempts(_, _, _, _)
fetch_attempts(url, resps, attempt, last_exc) ==
  IF attempt > RETRY
  THEN Failed(url, last_exc)
  ELSE LET r == resps[attempt + 1] IN
       CASE r.status = 0 ->
              fetch_attempts(url, resps, attempt + 1, Caught(attempt + 1))
         [] r.status = 403 /\ attempt < RETRY ->
              fetch_attempts(url, resps, attempt + 1, Http403(attempt + 1))
         [] r.status # 200 ->     \* raise_for_status raises, caught below
              fetch_attempts(url, resps, attempt + 1, Caught(attempt + 1))
         [] OTHER ->
              IF is_text_raw(url, r) THEN Ok(r.body) ELSE Ok(html_to_text(r.body))

fetch_page(url, resps) == fetch_attempts(url, resps, 0, NoExc)

ResponseSeqs == [1..(RETRY + 1) -> Responses]
\* everything fetch_page(url) can return or raise, over all response sequences
FetchResults == [u \in Urls |-> {fetch_page(u, rs) : rs \in ResponseSeqs}]

(***************************************************************************)
(* The snapshot file and the report file.  A file is absent, holds a       *)
(* complete JSON document ("ok"), or holds the truncated output of a write *)
(* that was started and not finished ("partial").                          *)
(***************************************************************************)
EmptyMap == [u \in {} |-> 0]
AbsentFile == [state |-> "absent", data |-> EmptyMap]
PartialFile == [state |-> "partial", data |-> EmptyMap]
\* json.dumps of a value, written out completely
json_dumps(data) == [state |-> "ok", data |-> data]
exists(f) == f.state # "absent"

load_snapshots(f) ==
  IF exists(f)
  THEN IF f.state = "ok" THEN f.data ELSE EmptyMap   \* json.loads raised
  ELSE EmptyMap

\* lines 114-117: whether an exception of read_text or json.loads leaves
\* load_snapshots; the try/except catches every Exception
load_raises_on_corrupt(f) == f.state = "partial"
load_raises(f) == FALSE

\* line 143: is_baseline, from the file and the mapping just loaded
baseline_run_by_empty_mapping(f, snaps) == snaps = EmptyMap
baseline_run(f, snaps) == ~exists(f)

\* line 122: what a completed write_text leaves in SNAPSHOT_PATH
saved_file_skips_empty(data) == IF data = EmptyMap THEN AbsentFile ELSE json_dumps(data)
saved_file(data) == json_dumps(data)

\* line 192: where main() is after save_snapshots raised; the call is in no
\* try block, so the exception leaves main()
after_save_failure_swallowed(p) == "report"
after_save_failure(p) == "error"

(***************************************************************************)
(* unified_diff.  difflib is modelled as it computes: SequenceMatcher      *)
(* without junk (autojunk needs 200 lines or more), matching blocks by     *)
(* recursive longest match, opcodes, opcodes grouped with 3 lines of       *)
(* context, and the unified format.  Indices are 0-based and ranges are    *)
(* half-open as in the Python code; a[i] of Python is a[i + 1] here.       *)
(* A line of the diff is a record: its prefix, its text and, for the hunk  *)
(* header and the trailer, its numbers.  The rendered diff is the sequence *)
(* of its lines: "\n".join is one-to-one on lines that hold no line break. *)
(***************************************************************************)
Max(x, y) == IF x >= y THEN x ELSE y
Min(x, y) == IF x <= y THEN x ELSE y
SetMax(S) == CHOOSE x \in S : \A y \in S : x >= y

\* length of the common run of a[i:ahi] and b[j:bhi]
RECURSIVE MatchLen(_, _, _, _, _, _)
MatchLen(a, b, i, j, ahi, bhi) ==
  IF i < ahi /\ j < bhi /\ a[i + 1] = b[j + 1]
  THEN 1 + MatchLen(a, b, i + 1, j + 1, ahi, bhi)
  ELSE 0

\* the lengths of the common runs from every (i, j) of the two ranges
RunLengths(a, b, alo, ahi, blo, bhi) ==
  [i \in alo..(ahi - 1) |-> [j \in blo..(bhi - 1) |-> MatchLen(a, b, i, j, ahi, bhi)]]

\* of the blocks of length k, the one that starts earliest in a, and of
\* those the one that starts earliest in b
EarliestBlock(runs, k) ==
  CHOOSE m \in {<<i, j, k>> : i \in DOMAIN runs, j \in UNION {DOMAIN runs[x] : x \in DOMAIN runs}} :
    /\ runs[m[1]][m[2]] = k
    /\ \A i \in DOMAIN runs : \A j \in DOMAIN runs[i] :
         runs[i][j] = k => (m[1] < i \/ (m[1] = i /\ m[2] <= j))

LongestIn(runs, alo, blo, lens) ==
  IF lens = {} \/ lens = {0}
  THEN <<alo, blo, 0>>
  ELSE EarliestBlock(runs, SetMax(lens))

LongestOf(runs, alo, blo) ==
  LongestIn(runs, alo, blo, UNION {{runs[i][j] : j \in DOMAIN runs[i]} : i \in DOMAIN runs})

\* SequenceMatcher.find_longest_match (no junk)
find_longest_match(a, b, alo, ahi, blo, bhi) ==
  LongestOf(RunLengths(a, b, alo, ahi, blo, bhi), alo, blo)

\* SequenceMatcher.get_matching_blocks without the final sentinel: the blocks
\* to the left of the longest match m, m, and the blocks to its right; the
\* blocks of a junk-free match are never adjacent, so the merging pass of
\* difflib changes nothing
RECURSIVE blocks_around(_, _, _, _, _, _, _)
blocks_around(a, b, alo, ahi, blo, bhi, m) ==
  IF m[3] = 0
  THEN <<>>
  ELSE (IF alo < m[1] /\ blo < m[2]
        THEN blocks_around(a, b, alo, m[1], blo, m[2],
                           find_longest_match(a, b, alo, m[1], blo, m[2]))
        ELSE <<>>)
       \o <<m>>
       \o (IF m[1] + m[3] < ahi /\ m[2] + m[3] < bhi
           THEN blocks_around(a, b, m[1] + m[3], ahi, m[2] + m[3], bhi,
                              find_longest_match(a, b, m[1] + m[3], ahi, m[2] + m[3], bhi))
           ELSE <<>>)

get_matching_blocks(a, b) ==
  Append(blocks_around(a, b, 0, Len(a), 0, Len(b),
                       find_longest_match(a, b, 0, Len(a), 0, Len(b))),
         <<Len(a), Len(b), 0>>)

Opcode(tag, i1, i2, j1, j2) == [tag |-> tag, i1 |-> i1, i2 |-> i2, j1 |-> j1, j2 |-> j2]

\* the tag of the gap between the position (i, j) and the block at (ai, bj)
GapTag(i, j, ai, bj) ==
  CASE i < ai /\ j < bj -> "replace"
    [] i < ai -> "delete"
    [] j < bj -> "insert"
    [] OTHER -> ""

\* SequenceMatcher.get_opcodes: the loop over the matching blocks from
\* position n, with (i, j) the end of the previous block
RECURSIVE opcodes_from(_, _, _, _)
opcodes_from(blocks, n, i, j) ==
  IF n > Len(blocks)
  THEN <<>>
  ELSE (IF GapTag(i, j, blocks[n][1], blocks[n][2]) # ""
        THEN <<Opcode(GapTag(i, j, blocks[n][1], blocks[n][2]),
                      i, blocks[n][1], j, blocks[n][2])>>
        ELSE <<>>)
       \o (IF blocks[n][3] > 0
           THEN <<Opcode("equal", blocks[n][1], blocks[n][1] + blocks[n][3],
                         blocks[n][2], blocks[n][2] + blocks[n][3])>>
           ELSE <<>>)
       \o opcodes_from(blocks, n + 1, blocks[n][1] + blocks[n][3],
                       blocks[n][2] + blocks[n][3])

get_opcodes(a, b) == opcodes_from(get_matching_blocks(a, b), 1, 0, 0)

\* an "equal" opcode cut to its last n lines, and to its first n lines
LastLines(c, n) == Opcode(c.tag, Max(c.i1, c.i2 - n), c.i2, Max(c.j1, c.j2 - n), c.j2)
FirstLines(c, n) == Opcode(c.tag, c.i1, Min(c.i2, c.i1 + n), c.j1, Min(c.j2, c.j1 + n))

\* the loop of get_grouped_opcodes: the groups that are complete, and the
\* group under construction, after the opcodes from position k
RECURSIVE group_loop(_, _, _, _, _)
group_loop(codes, k, n, done, group) ==
  IF k > Len(codes)
  THEN IF group # <<>> /\ ~(Len(group) = 1 /\ group[1].tag = "equal")
       THEN Append(done, group)
       ELSE done
  ELSE IF codes[k].tag = "equal" /\ codes[k].i2 - codes[k].i1 > n + n
       THEN group_loop(codes, k + 1, n,
                       Append(done, Append(group, FirstLines(codes[k], n))),
                       <<LastLines(codes[k], n)>>)
       ELSE group_loop(codes, k + 1, n, done, Append(group, codes[k]))

OrOneEqual(codes) == IF codes = <<>> THEN <<Opcode("equal", 0, 1, 0, 1)>> ELSE codes
TrimFirst(codes, n) ==
  IF codes[1].tag = "equal" THEN [codes EXCEPT ![1] = LastLines(@, n)] ELSE codes
TrimLast(codes, n) ==
  IF codes[Len(codes)].tag = "equal"
  THEN [codes EXCEPT ![Len(codes)] = FirstLines(@, n)]
  ELSE codes

get_grouped_opcodes(a, b, n) ==
  group_loop(TrimLast(TrimFirst(OrOneEqual(get_opcodes(a, b)), n), n), 1, n, <<>>, <<>>)

DiffLine(tag, text) == [tag |-> tag, text |-> text, nums |-> <<>>]
HunkLine(r1, r2) == [tag |-> "@@", text |-> "", nums |-> r1 \o r2]
TrailerLine(total) == [tag |-> "...(diff truncated", text |-> "", nums |-> <<total>>]

\* _format_range_unified, as the numbers it prints; each range is padded to
\* two numbers in the hunk line, a missing second number shown as -1
format_range_unified(start, stop) ==
  IF stop - start = 1
  THEN <<start + 1, -1>>
  ELSE <<IF stop = start THEN start ELSE start + 1, stop - start>>

Prefixed(tag, ls, lo, hi) == [k \in 1..(hi - lo) |-> DiffLine(tag, ls[lo + k])]

OpcodeLines(a, b, c) ==
  IF c.tag = "equal"
  THEN Prefixed(" ", a, c.i1, c.i2)
  ELSE (IF c.tag \in {"replace", "delete"} THEN Prefixed("-", a, c.i1, c.i2) ELSE <<>>)
       \o (IF c.tag \in {"replace", "insert"} THEN Prefixed("+", b, c.j1, c.j2) ELSE <<>>)

RECURSIVE group_lines(_, _, _, _)
group_lines(a, b, group, k) ==
  IF k > Len(group)
  THEN <<>>
  ELSE OpcodeLines(a, b, group[k]) \o group_lines(a, b, group, k + 1)

RECURSIVE hunks(_, _, _, _)
hunks(a, b, groups, g) ==
  IF g > Len(groups)
  THEN <<>>
  ELSE <<HunkLine(format_range_unified(groups[g][1].i1, groups[g][Len(groups[g])].i2),
                  format_range_unified(groups[g][1].j1, groups[g][Len(groups[g])].j2))>>
       \o group_lines(a, b, groups[g], 1)
       \o hunks(a, b, groups, g + 1)

WithHeader(a, b, groups) ==
  IF groups = <<>>
  THEN <<>>
  ELSE <<DiffLine("---", "previous"), DiffLine("+++", "current")>>
       \o hunks(a, b, groups, 1)

\* difflib.unified_diff(a, b, fromfile="previous", tofile="current", lineterm="")
difflib_unified_diff(a, b) == WithHeader(a, b, get_grouped_opcodes(a, b, 3))

\* lines 134-138
Truncated_at_the_limit(diff_lines) ==
  IF Len(diff_lines) >= DIFF_MAX_LINES
  THEN Append(SubSeq(diff_lines, 1, DIFF_MAX_LINES), TrailerLine(Len(diff_lines)))
  ELSE diff_lines
Truncated(diff_lines) ==
  IF Len(diff_lines) > DIFF_MAX_LINES
  THEN Append(SubSeq(diff_lines, 1, DIFF_MAX_LINES), TrailerLine(Len(diff_lines)))
  ELSE diff_lines

unified_diff(old, new) ==
  Truncated(difflib_unified_diff(splitlines(old), splitlines(new)))

(***************************************************************************)
(* The report file.                                                        *)
(***************************************************************************)
NoReport == [baseline |-> FALSE, generated_at |-> <<>>, changes |-> <<>>, fetch_errors |-> <<>>]
AbsentReport == [state |-> "absent", data |-> NoReport]
PartialReport == [state |-> "partial", data |-> NoReport]

\* the document main() writes to OUTPUT_PATH; the baseline document has no
\* "generated_at" key, modelled as the empty sequence
report_ignores_baseline(is_baseline, now_iso, changes, fetch_errors) ==
  [baseline |-> FALSE, generated_at |-> <<now_iso>>,
   changes |-> changes, fetch_errors |-> fetch_errors]
report(is_baseline, now_iso, changes, fetch_errors) ==
  IF is_baseline
  THEN [baseline |-> TRUE, generated_at |-> <<>>,
        changes |-> <<>>, fetch_errors |-> fetch_errors]
  ELSE [baseline |-> FALSE, generated_at |-> <<now_iso>>,
        changes |-> changes, fetch_errors |-> fetch_errors]

(***************************************************************************)
(* One iteration of the loop over PROVIDER_PAGES, as a function of the     *)
(* mutable locals of main(), the page, the outcome of fetch_page and the   *)
(* run's timestamp.  `diffed` records the urls unified_diff was called     *)
(* for.                                                                    *)
(***************************************************************************)
Locals(snaps, chgs, errs, dfd) ==
  [snapshots |-> snaps, changes |-> chgs, fetch_errors |-> errs, diffed |-> dfd]

Entry(page, h, content, now) ==
  [provider |-> page.provider, title |-> page.title,
   hash |-> h, content |-> content, fetched_at |-> now]

\* snapshots[url] = entry
Put_replaces_mapping(snaps, url, entry) == [u \in {url} |-> entry]
Put(snaps, url, entry) ==
  [u \in DOMAIN snaps \cup {url} |-> IF u = url THEN entry ELSE snaps[u]]

ChangeRecord(page, old_hash, new_hash, diff) ==
  [provider |-> page.provider, url |-> page.url, title |-> page.title,
   old_hash |-> old_hash, new_hash |-> new_hash, diff |-> diff]

FetchError(page, e) == [provider |-> page.provider, url |-> page.url, error |-> e]

\* lines 153-156: fetch_page raised
on_fetch_error_drops_entry(st, page, e) ==
  [st EXCEPT !.fetch_errors = Append(@, FetchError(page, e)),
             !.snapshots = [u \in DOMAIN @ \ {page.url} |-> @[u]]]
on_fetch_error_keeps_last_only(st, page, e) ==
  [st EXCEPT !.fetch_errors = <<FetchError(page, e)>>]
on_fetch_error(st, page, e) ==
  [st EXCEPT !.fetch_errors = Append(@, FetchError(page, e))]

\* lines 159-167: no snapshot is stored under the url
on_new_target_reports_change(st, page, h, content, now) ==
  [st EXCEPT !.snapshots = Put(@, page.url, Entry(page, h, content, now)),
             !.changes = Append(@, ChangeRecord(page, h, h, <<>>))]
on_new_target(st, page, h, content, now) ==
  [st EXCEPT !.snapshots = Put(@, page.url, Entry(page, h, content, now))]

\* line 169: the test that decides between "changed" and "unchanged"
is_changed_compares_content(prev, h, content) == prev.content # content
is_changed(prev, h, content) == prev.hash # h

\* lines 170-188: the stored fingerprint differs
on_changed_keeps_old_content(st, page, prev, h, content, now) ==
  [st EXCEPT
     !.diffed = @ \cup {page.url},
     !.changes = Append(@, ChangeRecord(page, prev.hash, h,
                                        unified_diff(prev.content, content))),
     !.snapshots = Put(@, page.url, [prev EXCEPT !.hash = h, !.fetched_at = now])]
on_changed_prepends(st, page, prev, h, content, now) ==
  [st EXCEPT
     !.diffed = @ \cup {page.url},
     !.changes = <<ChangeRecord(page, prev.hash, h,
                                unified_diff(prev.content, content))>> \o @,
     !.snapshots = Put(@, page.url,
        [prev EXCEPT !.hash = h, !.content = content, !.fetched_at = now])]
on_changed_keeps_old_hash(st, page, prev, h, content, now) ==
  [st EXCEPT
     !.diffed = @ \cup {page.url},
     !.changes = Append(@, ChangeRecord(page, prev.hash, h,
                                        unified_diff(prev.content, content))),
     !.snapshots = Put(@, page.url,
        [prev EXCEPT !.content = content, !.fetched_at = now])]
on_changed(st, page, prev, h, content, now) ==
  [st EXCEPT
     !.diffed = @ \cup {page.url},
     !.changes = Append(@, ChangeRecord(page, prev.hash, h,
                                        unified_diff(prev.content, content))),
     !.snapshots = Put(@, page.url,
        [prev EXCEPT !.hash = h, !.content = content, !.fetched_at = now])]

\* lines 189-190: the stored fingerprint is the same
on_unchanged_refreshes_timestamp(st, page, prev, now) ==
  [st EXCEPT !.snapshots = Put(@, page.url, [prev EXCEPT !.fetched_at = now])]
on_unchanged(st, page, prev, now) == st

process_page_stops_after_error(st, page, r, now) ==
  IF st.fetch_errors # <<>>
  THEN st
  ELSE IF ~r.ok
  THEN on_fetch_error(st, page, r.error)
  ELSE IF page.url \notin DOMAIN st.snapshots
  THEN on_new_target(st, page, compute_hash(r.text), r.text, now)
  ELSE IF is_changed(st.snapshots[page.url], compute_hash(r.text), r.text)
  THEN on_changed(st, page, st.snapshots[page.url], compute_hash(r.text), r.text, now)
  ELSE on_unchanged(st, page, st.snapshots[page.url], now)
process_page(st, page, r, now) ==
  IF ~r.ok
  THEN on_fetch_error(st, page, r.error)
  ELSE LET content == r.text
           h == compute_hash(content)
       IN IF page.url \notin DOMAIN st.snapshots
          THEN on_new_target(st, page, h, content, now)
          ELSE LET prev == st.snapshots[page.url] IN
               IF is_changed(prev, h, content)
               THEN on_changed(st, page, prev, h, content, now)
               ELSE on_unchanged(st, page, prev, now)

\* where main() goes after the iteration for page k
after_page_saves_in_loop(k) == "save"
after_page(k) == IF k < NumPages THEN "loop" ELSE "save"

(***************************************************************************)
(* State.                                                                  *)
(***************************************************************************)
VARIABLES
  file,          \* SNAPSHOT_PATH
  output,        \* OUTPUT_PATH
  clock,         \* number of runs started; the run's utcnow()
  pc,            \* where main() is: idle, loop, save, write, report, done,
                 \* crashed (interrupted), error (left by an exception)
  i,             \* index of the page the loop handles next
  now_iso, snapshots, is_baseline, changes, fetch_errors,   \* locals of main()
  \* history of the run, kept for stating properties
  startFile,     \* the snapshot file as it was when the run started
  fetched,       \* outcomes of fetch_page in this run, in page order
  lastFetched,   \* outcomes of the preceding run when it completed, else <<>>
  diffed,        \* urls unified_diff was called for in this run
  saves,         \* calls of save_snapshots in this run
  unreported,    \* <<url, hash>> overwrites saved and in no report so far
  allFetched,    \* urls fetched successfully in any run so far
  savedFetched,  \* urls fetched successfully in runs that completed the save
  corrupted,     \* the snapshot file was left partial at some time
  startOutput,   \* the report file as it was when the run started
  firstSave,     \* the number of the first run that completed its save, or 0
  failure,       \* which write of the run raised: "none", "save" or "report"
  \* state of the specifications of single functions (idle in Spec)
  dr,            \* a call of unified_diff: its arguments and its result
  fp,            \* a call of fetch_page: its loop state
  pair           \* two runs of the page loop, side by side

locals == <<i, now_iso, snapshots, is_baseline, changes, fetch_errors>>
history == <<startFile, fetched, lastFetched, diffed, saves, unreported,
             allFetched, savedFetched, corrupted, startOutput, firstSave,
             failure>>
main == <<file, output, clock, pc, locals, history>>
aux == <<dr, fp, pair>>
vars == <<main, aux>>

Idle == [pc |-> "idle"]

MainInit ==
  /\ file = AbsentFile
  /\ output = AbsentReport
  /\ clock = 0
  /\ pc = "idle"
  /\ i = 1
  /\ now_iso = 0
  /\ snapshots = EmptyMap
  /\ is_baseline = FALSE
  /\ changes = <<>>
  /\ fetch_errors = <<>>
  /\ startFile = AbsentFile
  /\ fetched = <<>>
  /\ lastFetched = <<>>
  /\ diffed = {}
  /\ saves = 0
  /\ unreported = {}
  /\ allFetched = {}
  /\ savedFetched = {}
  /\ corrupted = FALSE
  /\ startOutput = AbsentReport
  /\ firstSave = 0
  /\ failure = "none"

Init ==
  /\ MainInit
  /\ dr = Idle
  /\ fp = Idle
  /\ pair = Idle

NoRun == pc \in {"idle", "done", "crashed", "error"}

\* main(), lines 141-145
StartRun ==
  /\ NoRun
  /\ clock < MaxRuns
  /\ clock' = clock + 1
  /\ now_iso' = clock + 1
  /\ snapshots' = load_snapshots(file)
  /\ is_baseline' = baseline_run(file, load_snapshots(file))
  /\ changes' = <<>>
  /\ fetch_errors' = <<>>
  /\ i' = 1
  /\ pc' = IF load_raises(file) THEN "error" ELSE "loop"
  /\ startFile' = file
  /\ startOutput' = output
  /\ failure' = "none"
  /\ lastFetched' = IF pc = "done" THEN fetched ELSE <<>>
  /\ fetched' = <<>>
  /\ diffed' = {}
  /\ saves' = 0
  /\ corrupted' = (corrupted \/ file.state = "partial")
  /\ UNCHANGED <<file, output, unreported, allFetched, savedFetched, firstSave, aux>>

\* main(), lines 147-190: the iteration for page i
ProcessPage ==
  /\ pc = "loop"
  /\ \E r \in FetchResults[PROVIDER_PAGES[i].url] :
       \E st \in {process_page(Locals(snapshots, changes, fetch_errors, diffed),
                               PROVIDER_PAGES[i], r, now_iso)} :
          /\ snapshots' = st.snapshots
          /\ changes' = st.changes
          /\ fetch_errors' = st.fetch_errors
          /\ diffed' = st.diffed
          /\ fetched' = Append(fetched, r)
          /\ allFetched' = IF r.ok THEN allFetched \cup {PROVIDER_PAGES[i].url}
                           ELSE allFetched
  /\ i' = i + 1
  /\ pc' = after_page(i)
  /\ UNCHANGED <<file, output, clock, now_iso, is_baseline, startFile,
                 lastFetched, saves, unreported, savedFetched, corrupted,
                 startOutput, firstSave, failure, aux>>

\* save_snapshots, lines 121-122: mkdir, then write_text opens the file for
\* writing, which creates or truncates it
SaveOpen ==
  /\ pc = "save"
  /\ file' = PartialFile
  /\ saves' = saves + 1
  /\ pc' = "write"
  /\ UNCHANGED <<output, clock, locals, startFile, fetched, lastFetched, diffed,
                 unreported, allFetched, savedFetched, corrupted,
                 startOutput, firstSave, failure, aux>>

\* save_snapshots, line 122: write_text writes the document and closes
SaveWrite ==
  /\ pc = "write"
  /\ file' = saved_file(snapshots)
  /\ firstSave' = IF firstSave = 0 THEN clock ELSE firstSave
  /\ unreported' = unreported \cup
       {<<changes[k].url, changes[k].new_hash>> : k \in 1..Len(changes)}
  /\ savedFetched' = savedFetched \cup
       {PROVIDER_PAGES[k].url : k \in {n \in 1..Len(fetched) : fetched[n].ok}}
  /\ pc' = "report"
  /\ UNCHANGED <<output, clock, locals, startFile, fetched, lastFetched, diffed,
                 saves, allFetched, corrupted, startOutput, failure, aux>>

\* save_snapshots raises (mkdir or open fails at "save", the write fails at
\* "write"); main() does not catch it
SaveFails ==
  /\ pc \in {"save", "write"}
  /\ saves' = IF pc = "save" THEN saves + 1 ELSE saves
  /\ corrupted' = (corrupted \/ pc = "write")
  /\ pc' = after_save_failure(pc)
  /\ failure' = "save"
  /\ UNCHANGED <<file, output, clock, locals, startFile, fetched, lastFetched,
                 diffed, unreported, allFetched, savedFetched,
                 startOutput, firstSave, aux>>

\* main(), lines 194-216: the report is written
WriteReport ==
  /\ pc = "report"
  /\ LET rep == report(is_baseline, now_iso, changes, fetch_errors) IN
       /\ output' = json_dumps(rep)
       /\ unreported' = unreported \
            {<<rep.changes[k].url, rep.changes[k].new_hash>> : k \in 1..Len(rep.changes)}
  /\ pc' = "done"
  /\ UNCHANGED <<file, clock, locals, startFile, fetched, lastFetched, diffed,
                 saves, allFetched, savedFetched, corrupted,
                 startOutput, firstSave, failure, aux>>

\* OUTPUT_PATH.write_text raises; main() does not catch it
ReportFails ==
  /\ pc = "report"
  /\ output' = PartialReport
  /\ pc' = "error"
  /\ failure' = "report"
  /\ UNCHANGED <<file, clock, locals, startFile, fetched, lastFetched, diffed,
                 saves, unreported, allFetched, savedFetched, corrupted,
                 startOutput, firstSave, aux>>

\* the process is killed while main() runs
Crash ==
  /\ pc \in {"loop", "save", "write", "report"}
  /\ corrupted' = (corrupted \/ pc = "write")
  /\ pc' = "crashed"
  /\ UNCHANGED <<file, output, clock, locals, startFile, fetched, lastFetched,
                 diffed, saves, unreported, allFetched, savedFetched,
                 startOutput, firstSave, failure, aux>>

Next ==
  \/ StartRun
  \/ ProcessPage
  \/ SaveOpen
  \/ SaveWrite
  \/ SaveFails
  \/ WriteReport
  \/ ReportFails
  \/ Crash

Spec == Init /\ [][Next]_vars

(***************************************************************************)
(* Properties.                                                             *)
(***************************************************************************)
\* the mapping main() loaded when the run started
Loaded == load_snapshots(startFile)
PageIdx(u) == CHOOSE k \in 1..NumPages : PROVIDER_PAGES[k].url = u
\* what fetch_page gave for url u in this run (all pages processed)
Res(u) == fetched[PageIdx(u)]
NewHash(u) == compute_hash(Res(u).text)
RecordsFor(seq, u) == {k \in 1..Len(seq) : seq[k].url = u}
RunDone == pc = "done"
Reported == output.data

\* C1: a completed run that started without a snapshot file writes a report
\* with baseline = true and no changes, whatever was fetched.
BaselineSuppression ==
  (RunDone /\ ~exists(startFile)) =>
     /\ output.state = "ok"
     /\ Reported.baseline = TRUE
     /\ Reported.changes = <<>>

\* a baseline run is done in which every page was fetched and stored as new
BaselineSuppressionWitness ==
  /\ RunDone
  /\ ~exists(startFile)
  /\ \A u \in Urls : Res(u).ok /\ u \in DOMAIN file.data
  /\ Reported.baseline = TRUE

\* C2: for a page with a stored snapshot whose fingerprint differs from the
\* fingerprint of the fetched content, the completed run reports exactly one
\* ChangeRecord with the stored and the new fingerprint and the diff from the
\* stored to the fetched content, and the file then holds the new fingerprint
\* and the new content for the page.
ChangedContent ==
  RunDone =>
    \A u \in Urls :
      (u \in DOMAIN Loaded /\ Res(u).ok /\ Loaded[u].hash # NewHash(u)) =>
        /\ Cardinality(RecordsFor(Reported.changes, u)) = 1
        /\ \A k \in RecordsFor(Reported.changes, u) :
             /\ Reported.changes[k].old_hash = Loaded[u].hash
             /\ Reported.changes[k].new_hash = NewHash(u)
             /\ Reported.changes[k].diff = unified_diff(Loaded[u].content, Res(u).text)
        /\ file.state = "ok"
        /\ u \in DOMAIN file.data
        /\ file.data[u].hash = NewHash(u)
        /\ file.data[u].content = Res(u).text

\* the scenario of the specification: "v1\nline2" is stored, the fetch gives
\* "v1\nline2\nline3", and the reported diff has the added line
ChangedContentWitness ==
  /\ RunDone
  /\ \E u \in Urls :
       /\ u \in DOMAIN Loaded
       /\ Loaded[u].content = Text(<<"v1", "line2">>, FALSE)
       /\ Res(u).ok
       /\ Res(u).text = Text(<<"v1", "line2", "line3">>, FALSE)
       /\ \E k \in RecordsFor(Reported.changes, u) :
            \E n \in 1..Len(Reported.changes[k].diff) :
               Reported.changes[k].diff[n] = DiffLine("+", "line3")
       /\ file.data[u].content = Res(u).text

\* the outcomes of this run and of the completed run before it are the same
\* contents, page by page
SameContentAsLastRun ==
  /\ lastFetched # <<>>
  /\ \A k \in 1..NumPages :
       /\ fetched[k].ok
       /\ lastFetched[k].ok
       /\ fetched[k].text = lastFetched[k].text

\* C3: when a run follows a completed run and every page returns the content
\* it returned in that run, the report has no changes and the snapshot file
\* is what it was before the run, timestamps included.
Idempotence ==
  (RunDone /\ SameContentAsLastRun) =>
     /\ Reported.changes = <<>>
     /\ file = startFile

\* a second run with unchanged contents is done, after a first run that
\* stored them
IdempotenceWitness ==
  /\ RunDone
  /\ SameContentAsLastRun
  /\ \A u \in Urls : u \in DOMAIN file.data /\ file.data[u].fetched_at < now_iso

\* C4: a page whose fetch failed keeps its snapshot entry as loaded (or has
\* none), has exactly one FetchError and no ChangeRecord, and every other
\* page of the run was processed: it has an outcome, and an entry if fetched.
FetchFailureIsolation ==
  RunDone =>
    /\ Len(fetched) = NumPages
    /\ \A u \in Urls :
         IF Res(u).ok
         THEN u \in DOMAIN file.data
         ELSE /\ (u \in DOMAIN file.data) = (u \in DOMAIN Loaded)
              /\ u \in DOMAIN Loaded => file.data[u] = Loaded[u]
              /\ Cardinality(RecordsFor(Reported.fetch_errors, u)) = 1
              /\ RecordsFor(Reported.changes, u) = {}
              /\ RecordsFor(changes, u) = {}

\* a run is done in which a page with a stored snapshot failed and another
\* page was fetched with changed content
FetchFailureIsolationWitness ==
  /\ RunDone
  /\ \E u, v \in Urls :
       /\ u \in DOMAIN Loaded
       /\ ~Res(u).ok
       /\ file.data[u] = Loaded[u]
       /\ Res(v).ok
       /\ RecordsFor(Reported.changes, v) # {}

\* C5: in a run that found the snapshot file, a fetched page without a stored
\* snapshot gets an entry and no ChangeRecord, and a fetched page whose
\* content equals the stored content gets no ChangeRecord.
PerTargetBaseline ==
  (RunDone /\ exists(startFile)) =>
    \A u \in Urls :
      Res(u).ok =>
        /\ u \notin DOMAIN Loaded =>
             /\ u \in DOMAIN file.data
             /\ file.data[u] = Entry(PROVIDER_PAGES[PageIdx(u)], NewHash(u),
                                     Res(u).text, now_iso)
             /\ RecordsFor(Reported.changes, u) = {}
        /\ (u \in DOMAIN Loaded /\ Loaded[u].content = Res(u).text) =>
             RecordsFor(Reported.changes, u) = {}

\* a non-baseline run is done in which one page was first fetched and the
\* other page was fetched with its stored content
PerTargetBaselineWitness ==
  /\ RunDone
  /\ startFile.state = "ok"
  /\ \E u, v \in Urls :
       /\ u \notin DOMAIN Loaded
       /\ Res(u).ok
       /\ u \in DOMAIN file.data
       /\ v \in DOMAIN Loaded
       /\ Res(v).ok
       /\ Loaded[v].content = Res(v).text
  /\ Reported.baseline = FALSE
  /\ Reported.changes = <<>>

\* C6: after a run was interrupted, at whatever point, the snapshot file
\* holds no overwritten fingerprint whose ChangeRecord was never written to
\* a report.
CrashConsistency ==
  pc = "crashed" =>
    \A p \in unreported :
      ~(/\ file.state = "ok"
        /\ p[1] \in DOMAIN file.data
        /\ file.data[p[1]].hash = p[2])

\* C7: the snapshot file never holds a partially written mapping: it is
\* absent, or it holds a complete mapping.
AtomicSave == file.state # "partial"

\* C8: the snapshot file is written only by save_snapshots, after all pages
\* were processed; the report is written only after the one save of the run
\* has completed; a completed run has called save_snapshots exactly once.
SinglePersist ==
  [][ /\ (file' # file) => (pc \in {"save", "write"} /\ Len(fetched) = NumPages)
      /\ (output' # output) => (saves = 1 /\ file = json_dumps(snapshots))
      /\ (pc' = "done") => (saves' = 1 /\ Len(fetched') = NumPages)
    ]_vars

\* a run is done that processed a changed page and a failed page, saved the
\* new mapping and wrote its report
SinglePersistWitness ==
  /\ RunDone
  /\ saves = 1
  /\ file # startFile
  /\ output.state = "ok"
  /\ Reported.changes # <<>>
  /\ Reported.fetch_errors # <<>>

\* the entries of pages that failed in this run are as they were loaded
FailedEntriesKept ==
  \A u \in Urls :
    ~Res(u).ok =>
      /\ (u \in DOMAIN file.data) = (u \in DOMAIN Loaded)
      /\ u \in DOMAIN Loaded => file.data[u] = Loaded[u]

\* C9 as stated: after a completed run, with no corruption so far, the file
\* has an entry exactly for the pages fetched successfully in this run or in
\* any earlier run, and the entries of pages that failed now are unchanged.
RepositoryInvariantAnyRun ==
  (RunDone /\ ~corrupted) =>
     /\ file.state = "ok"
     /\ DOMAIN file.data = allFetched
     /\ FailedEntriesKept

\* C9 amended: after a completed run, with no corruption so far, the file has
\* an entry exactly for the pages fetched successfully in this run or in an
\* earlier run that completed its save, and the entries of pages that failed
\* now are unchanged.
RepositoryInvariant ==
  (RunDone /\ ~corrupted) =>
     /\ file.state = "ok"
     /\ DOMAIN file.data = savedFetched
     /\ FailedEntriesKept

\* a later run is done in which a page stored by an earlier run failed and
\* the other page was stored for the first time
RepositoryInvariantWitness ==
  /\ RunDone
  /\ ~corrupted
  /\ clock > 1
  /\ \E u, v \in Urls :
       /\ ~Res(u).ok
       /\ u \in DOMAIN file.data
       /\ file.data[u].fetched_at < now_iso
       /\ Res(v).ok
       /\ v \notin DOMAIN Loaded
       /\ v \in DOMAIN file.data

\* C10: for a page with a stored snapshot whose fingerprint equals the
\* fingerprint of the fetched content, there is no ChangeRecord, unified_diff
\* was not called and the entry is as loaded, whatever the stored content is.
FingerprintGate ==
  RunDone =>
    \A u \in Urls :
      (u \in DOMAIN Loaded /\ Res(u).ok /\ Loaded[u].hash = NewHash(u)) =>
        /\ RecordsFor(changes, u) = {}
        /\ RecordsFor(Reported.changes, u) = {}
        /\ u \notin diffed
        /\ file.data[u] = Loaded[u]

\* a run is done in which the fetched content differs from the stored
\* content and has the same fingerprint
FingerprintGateWitness ==
  /\ RunDone
  /\ \E u \in Urls :
       /\ u \in DOMAIN Loaded
       /\ Res(u).ok
       /\ Loaded[u].hash = NewHash(u)
       /\ Loaded[u].content # Res(u).text
       /\ file.data[u] = Loaded[u]

(***************************************************************************)
(* unified_diff alone, on texts long enough for the truncation: p common   *)
(* lines, then n lines that are replaced by m lines, then q common lines.  *)
(***************************************************************************)
Repeat(x, n) == [k \in 1..n |-> x]
DiffLens == {0, 1} \cup ((MaxDiffLen - 3)..MaxDiffLen)
CtxLens == {0, 4}
DiffInputs ==
  {[pc |-> "call",
    old |-> Text(Repeat("c", p) \o Repeat("a", n) \o Repeat("c", q), FALSE),
    new |-> Text(Repeat("c", p) \o Repeat("b", m) \o Repeat("c", q), FALSE),
    out |-> <<>>] : p \in CtxLens, q \in CtxLens, n \in DiffLens, m \in DiffLens}

InitDiff ==
  /\ MainInit
  /\ dr \in DiffInputs
  /\ fp = Idle
  /\ pair = Idle

\* unified_diff(old, new), lines 124-138
DiffCall ==
  /\ dr.pc = "call"
  /\ dr' = [dr EXCEPT !.pc = "returned", !.out = unified_diff(dr.old, dr.new)]
  /\ UNCHANGED <<main, fp, pair>>

NextDiff == DiffCall

SpecDiff == InitDiff /\ [][NextDiff]_vars

\* out is full cut to DIFF_MAX_LINES lines plus the trailer with Len(full),
\* or, when full is not longer than DIFF_MAX_LINES, full itself
BoundedCopy(full, out) ==
  IF Len(full) > DIFF_MAX_LINES
  THEN /\ Len(out) = DIFF_MAX_LINES + 1
       /\ \A k \in 1..DIFF_MAX_LINES : out[k] = full[k]
       /\ out[DIFF_MAX_LINES + 1] = TrailerLine(Len(full))
  ELSE /\ out = full
       /\ \A k \in 1..Len(out) : out[k].tag # TrailerLine(0).tag

\* C11: unified_diff returns the full difflib diff when it has at most
\* DIFF_MAX_LINES lines, and otherwise its first DIFF_MAX_LINES lines
\* followed by one trailer line that states the length of the full diff.
DiffBounded ==
  dr.pc = "returned" =>
    BoundedCopy(difflib_unified_diff(splitlines(dr.old), splitlines(dr.new)), dr.out)

\* a diff of more than DIFF_MAX_LINES + 1 lines was returned: cut, and with
\* the trailer as its last line
DiffBoundedWitness ==
  /\ dr.pc = "returned"
  /\ Len(difflib_unified_diff(splitlines(dr.old), splitlines(dr.new))) > DIFF_MAX_LINES + 1
  /\ Len(dr.out) = DIFF_MAX_LINES + 1
  /\ dr.out[DIFF_MAX_LINES].tag = "+"
  /\ dr.out[DIFF_MAX_LINES + 1].nums # <<>>

\* the run has handled every page (it is at or after save_snapshots)
PastLoop == pc \in {"save", "write", "report", "done"}
Page(k) == PROVIDER_PAGES[k]
OkPages == {k \in 1..Len(fetched) : fetched[k].ok}
FailedPages == {k \in 1..Len(fetched) : ~fetched[k].ok}

\* C12: load_snapshots raises nothing and gives the empty mapping for an
\* absent and for a corrupt file; a run started over a corrupt file is not
\* ended by the load, holds after its loop a fresh snapshot of every target it
\* fetched and no ChangeRecord, and when it completes it has saved these
\* snapshots and written a report without changes.
FailOpenLoad ==
  /\ (startFile.state \in {"absent", "partial"}) => Loaded = EmptyMap
  /\ (pc = "error") => saves >= 1
  /\ (startFile.state = "partial" /\ PastLoop) =>
        /\ changes = <<>>
        /\ \A k \in OkPages :
              /\ Page(k).url \in DOMAIN snapshots
              /\ snapshots[Page(k).url] =
                   Entry(Page(k), compute_hash(fetched[k].text), fetched[k].text, now_iso)
  /\ (startFile.state = "partial" /\ RunDone) =>
        /\ file = json_dumps(snapshots)
        /\ output.state = "ok"
        /\ Reported.changes = <<>>

\* a run over a corrupt file completed and stored what it fetched
FailOpenLoadWitness ==
  /\ RunDone
  /\ startFile.state = "partial"
  /\ OkPages # {}
  /\ file.state = "ok"
  /\ \A k \in OkPages : Page(k).url \in DOMAIN file.data

\* C13: during a run and in its report the baseline flag is "no snapshot
\* file existed when the run started", whatever the fetches of the run gave
\* and whatever the run wrote.
RunMode ==
  /\ (pc \in {"loop", "save", "write", "report", "done"}) =>
        is_baseline = ~exists(startFile)
  /\ RunDone =>
        /\ output.state = "ok"
        /\ Reported.baseline = ~exists(startFile)

\* a run that loaded the empty mapping from an existing file, with a fetch
\* failure and a fetched target, reported baseline = false
RunModeWitness ==
  /\ RunDone
  /\ exists(startFile)
  /\ Loaded = EmptyMap
  /\ OkPages # {}
  /\ FailedPages # {}
  /\ Reported.baseline = FALSE

\* C14: a failed fetch does not end the run: only save_snapshots or the
\* writing of the report raise out of main(); after the loop fetch_errors
\* holds, in page order, exactly one entry for each target whose fetch
\* failed and none for a fetched target, and the report of a completed run
\* carries exactly these entries, baseline or not.
FetchFailuresCollected ==
  /\ (pc = "error") => (Len(fetched) = NumPages /\ saves >= 1)
  /\ (Len(fetched) = NumPages) => pc # "loop"
  /\ PastLoop =>
        /\ Len(fetch_errors) = Cardinality(FailedPages)
        /\ \A k \in FailedPages :
              \E n \in 1..Len(fetch_errors) :
                 fetch_errors[n] = FetchError(Page(k), fetched[k].error)
        /\ \A k \in OkPages : RecordsFor(fetch_errors, Page(k).url) = {}
  /\ RunDone =>
        /\ output.state = "ok"
        /\ Reported.fetch_errors = fetch_errors

\* every fetch of a non-baseline run failed; the run completed and reported
\* one error per target
FetchFailuresCollectedWitness ==
  /\ RunDone
  /\ exists(startFile)
  /\ Cardinality(FailedPages) = NumPages
  /\ Reported.baseline = FALSE
  /\ Len(Reported.fetch_errors) = NumPages

\* C15: when save_snapshots raises the run ends in an error and the report
\* file is as the run found it; when the writing of the report raises the run
\* ends in an error; a run that finishes normally has written the mapping it
\* holds and the report of what it accumulated.
PersistenceFailureFatal ==
  /\ (failure = "save") => (pc = "error" /\ output = startOutput)
  /\ (failure = "report") => pc = "error"
  /\ (pc = "report") => (failure = "none" /\ file = json_dumps(snapshots))
  /\ RunDone =>
        /\ failure = "none"
        /\ file = json_dumps(snapshots)
        /\ output = json_dumps(report(is_baseline, now_iso, changes, fetch_errors))

\* save_snapshots raised in a run that had found a change: the run ended in
\* an error and the report of the run before is still the one on disk
PersistenceFailureFatalWitness ==
  /\ failure = "save"
  /\ pc = "error"
  /\ changes # <<>>
  /\ startOutput.state = "ok"
  /\ output = startOutput

IncreasingPages(seq) ==
  \A a, b \in 1..Len(seq) : a < b => PageIdx(seq[a].url) < PageIdx(seq[b].url)
UrlsOf(seq) == {seq[k].url : k \in 1..Len(seq)}
\* fetched targets whose stored fingerprint differs from the fetched one
DifferingPages ==
  {k \in OkPages : /\ Page(k).url \in DOMAIN Loaded
                    /\ Loaded[Page(k).url].hash # compute_hash(fetched[k].text)}

\* C17: the report of a completed run that found a snapshot file carries the
\* accumulated changes: one ChangeRecord, with the stored and the fetched
\* fingerprint, for each target whose fingerprints differ and for no other,
\* in the order of PROVIDER_PAGES; fetch_errors is in the order of
\* PROVIDER_PAGES too, and no url is in both sequences.
ReportContent ==
  (RunDone /\ exists(startFile)) =>
     /\ Reported.changes = changes
     /\ IncreasingPages(Reported.changes)
     /\ UrlsOf(Reported.changes) = {Page(k).url : k \in DifferingPages}
     /\ \A n \in 1..Len(Reported.changes) :
           LET c == Reported.changes[n] IN
             /\ c.old_hash = Loaded[c.url].hash
             /\ c.new_hash = NewHash(c.url)
             /\ c.old_hash # c.new_hash
     /\ IncreasingPages(Reported.fetch_errors)
     /\ UrlsOf(Reported.fetch_errors) = {Page(k).url : k \in FailedPages}
     /\ UrlsOf(Reported.changes) \cap UrlsOf(Reported.fetch_errors) = {}

\* a non-baseline run reported a change of two targets
ReportContentWitness ==
  /\ RunDone
  /\ exists(startFile)
  /\ Len(Reported.changes) >= 2
  /\ Reported.changes[1].url = Page(1).url

\* C19: once a run has completed save_snapshots the snapshot file exists,
\* also when the saved mapping is empty; every later run starts on an
\* existing file, is not a baseline run and reports baseline = false, and a
\* target it fetches without a stored snapshot gets its entry and no
\* ChangeRecord.
BaselineAtMostOnce ==
  /\ (firstSave # 0) => exists(file)
  /\ (firstSave # 0 /\ clock > firstSave) =>
        /\ exists(startFile)
        /\ is_baseline = FALSE
        /\ RunDone => Reported.baseline = FALSE
        /\ PastLoop =>
              \A k \in OkPages :
                 Page(k).url \notin DOMAIN Loaded =>
                    /\ Page(k).url \in DOMAIN snapshots
                    /\ snapshots[Page(k).url].fetched_at = now_iso
                    /\ RecordsFor(changes, Page(k).url) = {}

\* a run after a completed save of the empty mapping: not a baseline run,
\* its first fetched targets stored and not reported
BaselineAtMostOnceWitness ==
  /\ RunDone
  /\ firstSave # 0
  /\ clock > firstSave
  /\ startFile = json_dumps(EmptyMap)
  /\ Cardinality(OkPages) = NumPages
  /\ Reported.baseline = FALSE
  /\ Reported.changes = <<>>
  /\ DOMAIN file.data = Urls

HashMatches(snaps) ==
  \A u \in DOMAIN snaps : snaps[u].hash = compute_hash(snaps[u].content)

\* C20: every entry of the snapshot file, and of the mapping a run holds,
\* has hash = compute_hash(content).
HashConsistent ==
  /\ (file.state = "ok") => HashMatches(file.data)
  /\ HashMatches(snapshots)

\* the file holds an entry that a later run overwrote
HashConsistentWitness ==
  /\ RunDone
  /\ file.state = "ok"
  /\ \E u \in DOMAIN file.data :
        /\ u \in DOMAIN Loaded
        /\ Loaded[u].hash # file.data[u].hash
        /\ file.data[u].fetched_at = now_iso

(***************************************************************************)
(* fetch_page alone, one request attempt per step.                         *)
(***************************************************************************)
\* lines 54-58, shortened to their product tokens
PRIMARY_UA == "DocsWatchBot/1.0"
BROWSER_UA == "Mozilla/5.0"

\* lines 87-89: the User-Agent header of attempt number `attempt` (0-based)
user_agent(attempt) == IF attempt > 0 THEN BROWSER_UA ELSE PRIMARY_UA

\* line 86: for attempt in range(RETRY + 1)
in_range_one_more(attempt) == attempt < RETRY + 2
in_range(attempt) == attempt < RETRY + 1

\* lines 98-104: the text returned for a response that passed raise_for_status
response_text(url, r) ==
  IF is_text_raw(url, r) THEN r.body ELSE html_to_text(r.body)

Pending == [ok |-> FALSE, error |-> <<>>]
FetchCalls ==
  {[pc |-> "attempt", url |-> u, attempt |-> 0, last_exc |-> NoExc,
    sent |-> <<>>, got |-> <<>>, result |-> Pending] : u \in Urls}

\* lines 87-107: one iteration of the loop, r being what requests.get gives
attempt_step(f, r) ==
  LET n == f.attempt + 1
      f1 == [f EXCEPT !.sent = Append(@, user_agent(f.attempt)),
                      !.got = Append(@, r),
                      !.attempt = n]
  IN CASE r.status = 0 -> [f1 EXCEPT !.last_exc = Caught(n)]
       [] r.status = 403 /\ f.attempt < RETRY -> [f1 EXCEPT !.last_exc = Http403(n)]
       [] r.status # 200 -> [f1 EXCEPT !.last_exc = Caught(n)]
       [] OTHER -> [f1 EXCEPT !.pc = "returned",
                              !.result = Ok(response_text(f.url, r))]

InitFetch ==
  /\ MainInit
  /\ fp \in FetchCalls
  /\ dr = Idle
  /\ pair = Idle

\* lines 86-107
FetchAttempt ==
  /\ fp.pc = "attempt"
  /\ in_range(fp.attempt)
  /\ \E r \in Responses : fp' = attempt_step(fp, r)
  /\ UNCHANGED <<main, dr, pair>>

\* line 108: the loop is exhausted
FetchGiveUp ==
  /\ fp.pc = "attempt"
  /\ ~in_range(fp.attempt)
  /\ fp' = [fp EXCEPT !.pc = "raised", !.result = Failed(fp.url, fp.last_exc)]
  /\ UNCHANGED <<main, dr, pair>>

NextFetch ==
  \/ FetchAttempt
  \/ FetchGiveUp

\* the loop runs on: requests.get has a timeout and the sleeps are finite
SpecFetch == InitFetch /\ [][NextFetch]_vars /\ WF_vars(NextFetch)

FetchEnded == fp.pc \in {"returned", "raised"}
\* the response sequences that start with the responses received
Extensions(got) ==
  {rs \in ResponseSeqs : \A k \in 1..Len(got) : k <= RETRY + 1 => rs[k] = got[k]}

FetchSafe ==
  /\ Len(fp.sent) <= RETRY + 1
  /\ Len(fp.got) = Len(fp.sent)
  /\ \A k \in 1..Len(fp.sent) :
        fp.sent[k] = IF k = 1 THEN PRIMARY_UA ELSE BROWSER_UA
  /\ (fp.pc = "returned") =>
        /\ fp.got[Len(fp.got)].status = 200
        /\ \A k \in 1..(Len(fp.got) - 1) : fp.got[k].status # 200
        /\ fp.result = Ok(response_text(fp.url, fp.got[Len(fp.got)]))
  /\ (fp.pc = "raised") =>
        /\ Len(fp.got) = RETRY + 1
        /\ \A k \in 1..Len(fp.got) : fp.got[k].status # 200
        /\ fp.result = Failed(fp.url, Caught(RETRY + 1))
  /\ FetchEnded =>
        \A rs \in Extensions(fp.got) : fetch_page(fp.url, rs) = fp.result

\* C18: a call of fetch_page ends, after at most RETRY + 1 requests; the
\* first request carries PRIMARY_UA and every later one BROWSER_UA; it
\* returns the text of the first response with status 200, or, when no
\* attempt gave one, raises the error that names the failure of attempt
\* RETRY + 1.
BoundedRetry == [](fp.pc # "idle" => FetchSafe) /\ <>FetchEnded

\* the third attempt, after a 403 and an exception, succeeded
BoundedRetryWitness ==
  /\ fp.pc = "returned"
  /\ Len(fp.sent) = RETRY + 1
  /\ fp.got[1].status = 403
  /\ fp.got[2].status = 0
  /\ fp.sent[RETRY + 1] = BROWSER_UA
  /\ fp.result.ok

(***************************************************************************)
(* Two runs of main() side by side, a and b, started at the same time on   *)
(* two snapshot files that agree on the entry of one target T, and given   *)
(* the same fetch result for T; everything about the other targets is      *)
(* chosen freely for each run.                                             *)
(***************************************************************************)
\* the texts fetch_page can have returned for a url
StoredTexts(u) == {r.text : r \in {x \in FetchResults[u] : x.ok}}
\* the entries an earlier run (at time 0) can have stored for a url
StoredEntries(u) ==
  {Entry(Page(PageIdx(u)), compute_hash(t), t, 0) : t \in StoredTexts(u)}
StoredMaps ==
  UNION {{m \in [S -> UNION {StoredEntries(u) : u \in S}] :
            \A u \in S : m[u] \in StoredEntries(u)} : S \in SUBSET Urls}
StoredFiles == {AbsentFile, PartialFile} \cup {json_dumps(m) : m \in StoredMaps}

\* two mappings hold the same for url u: the same entry or none
SameEntry(u, ma, mb) ==
  /\ (u \in DOMAIN ma) = (u \in DOMAIN mb)
  /\ (u \in DOMAIN ma) => ma[u] = mb[u]
\* the records of two sequences that carry url u are the same, in order
ForUrl(seq, u) == SelectSeq(seq, LAMBDA x : x.url = u)
SameRecords(u, sa, sb) == ForUrl(sa, u) = ForUrl(sb, u)

\* main(), lines 141-145, for one of the two runs
RunStart(f) ==
  [base |-> baseline_run(f, load_snapshots(f)),
   st |-> Locals(load_snapshots(f), <<>>, <<>>, {}),
   rep |-> NoReport]

PairInits ==
  {[pc |-> "loop", T |-> t, i |-> 1, now |-> 1, a |-> RunStart(fa), b |-> RunStart(fb)] :
     t \in Urls,
     fa \in StoredFiles,
     fb \in StoredFiles}

InitPair ==
  /\ MainInit
  /\ dr = Idle
  /\ fp = Idle
  /\ pair \in {p \in PairInits : SameEntry(p.T, p.a.st.snapshots, p.b.st.snapshots)}

\* main(), lines 147-190: the iteration for page i in both runs
PairPage ==
  /\ pair.pc = "loop"
  /\ \E ra \in FetchResults[Page(pair.i).url] :
       \E rb \in FetchResults[Page(pair.i).url] :
          /\ (Page(pair.i).url = pair.T) => ra = rb
          /\ pair' = [pair EXCEPT
                        !.a.st = process_page(@, Page(pair.i), ra, pair.now),
                        !.b.st = process_page(@, Page(pair.i), rb, pair.now),
                        !.i = @ + 1,
                        !.pc = after_page(pair.i)]
  /\ UNCHANGED <<main, dr, fp>>

\* main(), lines 192-216, in both runs: saved, and the report written
PairReport ==
  /\ pair.pc = "save"
  /\ pair' = [pair EXCEPT
                !.a.rep = report(pair.a.base, pair.now, pair.a.st.changes,
                                 pair.a.st.fetch_errors),
                !.b.rep = report(pair.b.base, pair.now, pair.b.st.changes,
                                 pair.b.st.fetch_errors),
                !.pc = "done"]
  /\ UNCHANGED <<main, dr, fp>>

NextPair ==
  \/ PairPage
  \/ PairReport

SpecPair == InitPair /\ [][NextPair]_vars

\* C16: at every point of two runs that agree on T's stored entry and on
\* T's fetch result, the entry held for T, the ChangeRecords and FetchErrors
\* accumulated for T and whether unified_diff was called for T are the same
\* in both runs, and so are T's records in the two reports.
TargetIndependence ==
  (pair.pc # "idle") =>
     /\ SameEntry(pair.T, pair.a.st.snapshots, pair.b.st.snapshots)
     /\ SameRecords(pair.T, pair.a.st.changes, pair.b.st.changes)
     /\ SameRecords(pair.T, pair.a.st.fetch_errors, pair.b.st.fetch_errors)
     /\ (pair.T \in pair.a.st.diffed) = (pair.T \in pair.b.st.diffed)
     /\ (pair.pc = "done") =>
           /\ SameRecords(pair.T, pair.a.rep.changes, pair.b.rep.changes)
           /\ SameRecords(pair.T, pair.a.rep.fetch_errors, pair.b.rep.fetch_errors)

\* T is the last target and was reported changed in both runs, after the
\* first target failed in run a and changed in run b
TargetIndependenceWitness ==
  /\ pair.pc = "done"
  /\ pair.T = Page(NumPages).url
  /\ ForUrl(pair.a.rep.changes, pair.T) # <<>>
  /\ ForUrl(pair.a.rep.fetch_errors, Page(1).url) # <<>>
  /\ ForUrl(pair.b.rep.changes, Page(1).url) # <<>>

====
